---- MODULE Spec2Model ----
(***************************************************************************)
(* Model of libavcodec/libspeexenc.c: the libspeex encoder wrapper.        *)
(*                                                                         *)
(* State: the AVCodecContext fields the wrapper reads and writes (avctx),  *)
(* the private LibSpeexEncContext (s), the objects owned through pointers  *)
(* (heap), the controls sent to the libspeex encoder (ctls), the caller's  *)
(* output buffer (frame) and the value returned by the last call (ret).    *)
(* libspeex itself is opaque: what it answers to the GET controls is held  *)
(* in lib and fixed for a run; an encoded frame is a token of FrameBits    *)
(* bits in the bitwriter.                                                  *)
(***************************************************************************)
EXTENDS Integers, Sequences, FiniteSets, TLC

(* ---------------------------------------------------------------------- *)
(* Bounds of the model                                                     *)
(* ---------------------------------------------------------------------- *)
\* number of encode_frame calls explored in the packetisation specification
MaxCalls == 16
\* number of end-of-stream calls explored
MaxEos == 2
\* number of calls with an output buffer that does not exceed the packet
MaxSmall == 1
\* number of encode_frame calls explored in the configuration specification
MaxCallsCfg == 2
\* bits libspeex writes for one encoded frame (opaque to the wrapper)
FrameBits == 11
\* bits libspeex writes for the in-band stereo side information of a frame
StereoBits == 6

(* ---------------------------------------------------------------------- *)
(* Program constants                                                       *)
(* ---------------------------------------------------------------------- *)
MinFramesPerPacket == 1
MaxFramesPerPacket == 8
CODEC_FLAG_QSCALE == 2
FF_QP2LAMBDA == 118
FF_COMPRESSION_DEFAULT == -1
TerminatorCode == 15
TerminatorBits == 5
AVERROR_EINVAL == -22
AVERROR_ENOMEM == -12
ERROR_LIBSPEEX == -1
STEREO_OVERHEAD == 800

Min(a, b) == IF a < b THEN a ELSE b

\* av_clip / av_clipf: clamp a into [lo, hi]
av_clip(a, lo, hi) == IF a < lo THEN lo ELSE IF a > hi THEN hi ELSE a

(* ---------------------------------------------------------------------- *)
(* The bitwriter (SpeexBits) as a sequence of written items                *)
(* ---------------------------------------------------------------------- *)
FrameToken(n)  == [kind |-> "frame",  val |-> n, nbits |-> FrameBits]
StereoToken(n) == [kind |-> "stereo", val |-> n, nbits |-> StereoBits]
\* speex_bits_pack(bits, value, nbits)
PackToken(value, nbits) == [kind |-> "pack", val |-> value, nbits |-> nbits]

RECURSIVE NbBits(_)
NbBits(b) == IF b = <<>> THEN 0 ELSE Head(b).nbits + NbBits(Tail(b))

\* speex_bits_nbytes: (nbBits + 7) >> 3
speex_bits_nbytes(b) == (NbBits(b) + 7) \div 8

\* the longest prefix of b that fits entirely into nbytes bytes
RECURSIVE PrefixFitting(_, _)
PrefixFitting(b, nbitsLeft) ==
    IF b = <<>> \/ Head(b).nbits > nbitsLeft THEN <<>>
    ELSE <<Head(b)>> \o PrefixFitting(Tail(b), nbitsLeft - Head(b).nbits)

\* speex_bits_write(bits, chars, max_nbytes): copies min(max_nbytes, nbytes)
\* bytes and returns that count; the bitwriter is left as it was
speex_bits_write(b, max_nbytes) ==
    [ret  |-> Min(max_nbytes, speex_bits_nbytes(b)),
     data |-> IF max_nbytes >= speex_bits_nbytes(b) THEN b
              ELSE PrefixFitting(b, 8 * max_nbytes)]

\* the output buffer sizes tried against a bitwriter holding nbytes bytes:
\* none, one byte short, exactly nbytes, one byte more, and ample
BufSizes(nbytes) == {b \in {0, nbytes - 1, nbytes, nbytes + 1, 2 * nbytes + 8} : b >= 0}


(* ---------------------------------------------------------------------- *)
(* State                                                                   *)
(* ---------------------------------------------------------------------- *)
VARIABLES
    cfg,     \* the configuration the caller set before encode_init
    lib,     \* what the libspeex build answers to the GET controls
    avctx,   \* AVCodecContext fields used by the wrapper
    s,       \* LibSpeexEncContext (avctx->priv_data)
    heap,    \* state of the objects reached through pointers
    ctls,    \* speex_encoder_ctl requests sent so far, in order
    frame,   \* what the last encode_frame call wrote to the output buffer
    ret,     \* return value of the last call
    phase,   \* "Uninitialized", "InitFailed", "Ready" or "Closed"
    h        \* record of the last call and running totals over the calls

vars == <<cfg, lib, avctx, s, heap, ctls, frame, ret, phase, h>>

(* ---------------------------------------------------------------------- *)
(* encode_init                                                             *)
(* ---------------------------------------------------------------------- *)
\* a faulty validation that only refuses more than two channels
ChannelsValid_UpperOnly(channels) == ~(channels > 2)

\* line 129: the channel count is accepted
ChannelsValid(channels) == ~(channels < 1 \/ channels > 2)

\* a faulty switch in which 32000 Hz falls through to wideband
ModeOf_NoUwb(sample_rate) ==
    CASE sample_rate = 8000  -> "narrowband"
      [] sample_rate = 16000 -> "wideband"
      [] sample_rate = 32000 -> "wideband"
      [] OTHER               -> "none"

\* lines 136-144: the switch over the sample rate; "none" is the default case
ModeOf(sample_rate) ==
    CASE sample_rate = 8000  -> "narrowband"
      [] sample_rate = 16000 -> "wideband"
      [] sample_rate = 32000 -> "ultra-wideband"
      [] OTHER               -> "none"

\* frame size libspeex sets in the header for each mode
ModeFrameSize(mode) ==
    CASE mode = "narrowband"     -> 160
      [] mode = "wideband"       -> 320
      [] mode = "ultra-wideband" -> 640
      [] OTHER                   -> 0

\* speex_init_header(&s->header, sample_rate, channels, mode)
speex_init_header(rate, nb_channels, mode) ==
    [rate |-> rate, mode |-> mode, nb_channels |-> nb_channels,
     bitrate |-> -1, frame_size |-> ModeFrameSize(mode), vbr |-> 0,
     frames_per_packet |-> 0]

Ctl(request, value) == [req |-> request, val |-> value]

\* avctx->flags & CODEC_FLAG_QSCALE
QScaleSet(flags) == (flags \div CODEC_FLAG_QSCALE) % 2 = 1

\* a faulty precedence: the bitrate is looked at before the quality-scale flag
RateControlMode_BitrateFirst(flags, bit_rate, abr) ==
    IF bit_rate > 0
    THEN IF abr # 0 THEN "ABR" ELSE "CBR_BITRATE"
    ELSE IF QScaleSet(flags) THEN "VBR" ELSE "CBR_QUALITY"

\* lines 155-183: which rate control branch encode_init takes
RateControlMode(flags, bit_rate, abr) ==
    IF QScaleSet(flags) THEN "VBR"
    ELSE IF bit_rate > 0
         THEN IF abr # 0 THEN "ABR" ELSE "CBR_BITRATE"
         ELSE "CBR_QUALITY"

\* a faulty quality that is stored as given, without the clamp
VbrQuality_Unclamped(global_quality) == global_quality

\* line 159: av_clipf(global_quality / (float)FF_QP2LAMBDA, 0.0f, 10.0f),
\* held as the numerator of a fraction over FF_QP2LAMBDA
VbrQuality(global_quality) == av_clip(global_quality, 0, 10 * FF_QP2LAMBDA)

\* a faulty report that adds the stereo allowance for every channel count
ReportedBitrate_AlwaysStereo(bitrate, channels) == bitrate + STEREO_OVERHEAD

\* line 186: the bitrate reported back to the caller
ReportedBitrate(bitrate, channels) ==
    bitrate + (IF channels = 2 THEN STEREO_OVERHEAD ELSE 0)

\* lines 154-187: rate control method and parameters. Yields the header, the
\* stored VBR quality, the caller-visible bitrate and the controls sent.
RateControl(a, st, hdr) ==
    LET m == RateControlMode(a.flags, a.bit_rate, st.abr) IN
    IF m = "VBR"
    THEN [header      |-> [hdr EXCEPT !.vbr = 1],
          vbr_quality |-> VbrQuality(a.global_quality),
          bit_rate    |-> a.bit_rate,
          ctls        |-> <<Ctl("SPEEX_SET_VBR", 1),
                            Ctl("SPEEX_SET_VBR_QUALITY",
                                VbrQuality(a.global_quality))>>]
    ELSE [header      |-> [hdr EXCEPT !.bitrate = lib.bitrate],
          vbr_quality |-> st.vbr_quality,
          bit_rate    |-> ReportedBitrate(lib.bitrate, a.channels),
          ctls        |->
            CASE m = "ABR" ->
                   <<Ctl("SPEEX_SET_ABR", a.bit_rate),
                     Ctl("SPEEX_GET_ABR", lib.bitrate)>>
              [] m = "CBR_BITRATE" ->
                   <<Ctl("SPEEX_SET_BITRATE", a.bit_rate),
                     Ctl("SPEEX_GET_BITRATE", lib.bitrate)>>
              [] OTHER ->
                   <<Ctl("SPEEX_SET_QUALITY", st.cbr_quality),
                     Ctl("SPEEX_GET_BITRATE", lib.bitrate)>>]

\* a faulty test that takes 0 for "unset" as well
ComplexityGiven_Positive(compression_level) == compression_level > 0

\* line 190: the caller supplied a compression level
ComplexityGiven(compression_level) == compression_level > FF_COMPRESSION_DEFAULT

\* lines 189-195: the complexity pushed (if any) and the one read back
Complexity(compression_level) ==
    IF ComplexityGiven(compression_level)
    THEN [value |-> av_clip(compression_level, 0, 10),
          ctls  |-> <<Ctl("SPEEX_SET_COMPLEXITY", av_clip(compression_level, 0, 10)),
                      Ctl("SPEEX_GET_COMPLEXITY", av_clip(compression_level, 0, 10))>>]
    ELSE [value |-> lib.complexity,
          ctls  |-> <<Ctl("SPEEX_GET_COMPLEXITY", lib.complexity)>>]

\* the record of a call in h; the running totals are carried over
Called(op, data, buf_cmp, pre_cnt, in_cnt, in_bits) ==
    [h EXCEPT !.op = op, !.data = data, !.buf_cmp = buf_cmp,
              !.pre_cnt = pre_cnt, !.in_cnt = in_cnt, !.in_bits = in_bits]

\* lines 128-144: encode_init returns AVERROR(EINVAL) before touching anything
InitInvalid ==
    /\ phase = "Uninitialized"
    /\ ~ChannelsValid(avctx.channels) \/ ModeOf(avctx.sample_rate) = "none"
    /\ ret' = AVERROR_EINVAL
    /\ phase' = "InitFailed"
    /\ h' = Called("init", FALSE, "na", 0, 0, <<>>)
    /\ UNCHANGED <<cfg, lib, avctx, s, heap, ctls, frame>>

\* lines 146-151: speex_encoder_init returns NULL
InitNoCodec ==
    /\ phase = "Uninitialized"
    /\ ChannelsValid(avctx.channels) /\ ModeOf(avctx.sample_rate) # "none"
    /\ s' = [s EXCEPT !.enc_state = "NULL"]
    /\ ret' = ERROR_LIBSPEEX
    /\ phase' = "InitFailed"
    /\ h' = Called("init", FALSE, "na", 0, 0, <<>>)
    /\ UNCHANGED <<cfg, lib, avctx, heap, ctls, frame>>

\* line 212: one of the two allocations failed
AllocFailed(extradata, coded_frame) == extradata = "NULL" \/ coded_frame = "NULL"

\* lines 213-214: what the allocation-failure path releases
ReleaseOnAllocFailure(hp) ==
    [hp EXCEPT !.header_data = "freed",
               !.enc_state = "destroyed",
               !.enc_destroys = hp.enc_destroys + 1]

\* lines 146-229 with the codec instance created: rate control, complexity,
\* frame size, delay, header packet, the two allocations and, when both
\* succeed, the extradata copy and the bitwriter
InitWithCodec(malloc_ok, alloc_frame_ok) ==
    /\ phase = "Uninitialized"
    /\ ChannelsValid(avctx.channels) /\ ModeOf(avctx.sample_rate) # "none"
    /\ LET mode     == ModeOf(avctx.sample_rate)
           hdr0     == speex_init_header(avctx.sample_rate, avctx.channels, mode)
           rc       == RateControl(avctx, s, hdr0)
           cx       == Complexity(avctx.compression_level)
           hdr      == [rc.header EXCEPT !.frames_per_packet = s.frames_per_packet]
           extra    == IF malloc_ok THEN "ptr" ELSE "NULL"
           cframe   == IF alloc_frame_ok THEN "ptr" ELSE "NULL"
           a1       == [avctx EXCEPT !.bit_rate = rc.bit_rate,
                                     !.compression_level = cx.value,
                                     !.frame_size = hdr.frame_size,
                                     !.delay = lib.lookahead,
                                     !.extradata = extra,
                                     !.coded_frame = cframe]
           s1       == [s EXCEPT !.enc_state = "ptr", !.header = hdr,
                                 !.vbr_quality = rc.vbr_quality]
           hp1      == [heap EXCEPT !.enc_state = "live",
                                    !.header_data = "live",
                                    !.extradata = IF malloc_ok THEN "live" ELSE @,
                                    !.coded_frame = IF alloc_frame_ok THEN "live" ELSE @]
       IN  /\ ctls' = ctls \o rc.ctls \o cx.ctls
                          \o <<Ctl("SPEEX_GET_LOOKAHEAD", lib.lookahead)>>
           /\ IF AllocFailed(extra, cframe)
              THEN /\ avctx' = a1
                   /\ s' = s1
                   /\ heap' = ReleaseOnAllocFailure(hp1)
                   /\ ret' = AVERROR_ENOMEM
                   /\ phase' = "InitFailed"
              ELSE /\ avctx' = [a1 EXCEPT !.extradata_size = lib.header_size]
                   /\ s' = [s1 EXCEPT !.bits = <<>>]
                   /\ heap' = [hp1 EXCEPT !.header_data = "freed",
                                          !.extradata_content = <<hdr>>,
                                          !.bits = "live"]
                   /\ ret' = 0
                   /\ phase' = "Ready"
    /\ h' = Called("init", FALSE, "na", 0, 0, <<>>)
    /\ UNCHANGED <<cfg, lib, frame>>

encode_init ==
    \/ InitInvalid
    \/ InitNoCodec
    \/ \E malloc_ok \in BOOLEAN, alloc_frame_ok \in BOOLEAN :
          InitWithCodec(malloc_ok, alloc_frame_ok)

(* ---------------------------------------------------------------------- *)
(* encode_frame                                                            *)
(* ---------------------------------------------------------------------- *)
\* av_rescale_rnd(a, b, c, AV_ROUND_NEAR_INF): a * b / c, halves away from zero
RECURSIVE av_rescale(_, _, _)
av_rescale(a, b, c) ==
    IF a < 0 THEN -av_rescale(-a, b, c) ELSE (a * b + c \div 2) \div c

\* ff_samples_to_time_base: av_rescale_q(samples, {1, sample_rate}, time_base)
ff_samples_to_time_base(a, samples) ==
    av_rescale(samples, a.time_base[2], a.time_base[1] * a.sample_rate)

\* lines 239-241: what encoding one frame appends to the bitwriter
EncodedFrame(channels, n) ==
    (IF channels = 2 THEN <<StereoToken(n)>> ELSE <<>>) \o <<FrameToken(n)>>

\* a faulty end-of-stream test that never takes the early return
EosNoPending_Never(pkt_frame_count) == FALSE

\* line 246: end of stream with no frame pending
EosNoPending(pkt_frame_count) == pkt_frame_count = 0

\* lines 249-252: the terminator codes added for the unused frame slots
RECURSIVE Terminators(_, _)
Terminators(pkt_frame_count, frames_per_packet) ==
    IF pkt_frame_count < frames_per_packet
    THEN <<PackToken(TerminatorCode, TerminatorBits)>>
         \o Terminators(pkt_frame_count + 1, frames_per_packet)
    ELSE <<>>

\* a faulty completeness test, one frame early
PacketComplete_OffByOne(pkt_frame_count, frames_per_packet) ==
    pkt_frame_count + 1 = frames_per_packet

\* a faulty completeness test that ignores frames_per_packet
PacketComplete_AnyFrame(pkt_frame_count, frames_per_packet) ==
    pkt_frame_count >= 1

\* line 256: all frames for the packet have been encoded
PacketComplete(pkt_frame_count, frames_per_packet) ==
    pkt_frame_count = frames_per_packet

\* line 262: the output buffer is accepted
BufferFits(buf_size, nbytes) == buf_size > nbytes

\* a faulty clock that is overwritten with the packet's samples
AdvancePts_Overwrite(next_pts, pkt_sample_count) == pkt_sample_count

\* line 260: the sample clock after a completed packet
AdvancePts(next_pts, pkt_sample_count) == next_pts + pkt_sample_count

\* buf_size against the bytes in the bitwriter, as recorded in h
Compare(buf_size, nbytes) ==
    IF buf_size < nbytes THEN "lt" ELSE IF buf_size = nbytes THEN "eq" ELSE "gt"

\* a faulty input step that counts interleaved samples of all channels
HandleInput_InterleavedSamples(st, channels, frame_size, data, n) ==
    IF data
    THEN [st EXCEPT !.bits = st.bits \o EncodedFrame(channels, n),
                    !.pkt_frame_count = st.pkt_frame_count + 1,
                    !.pkt_sample_count = st.pkt_sample_count + frame_size * channels]
    ELSE LET pad == Terminators(st.pkt_frame_count, st.frames_per_packet) IN
         [st EXCEPT !.bits = st.bits \o pad,
                    !.pkt_frame_count = st.pkt_frame_count + Len(pad)]

\* lines 237-253: the state after the input has been handled
HandleInput(st, channels, frame_size, data, n) ==
    IF data
    THEN [st EXCEPT !.bits = st.bits \o EncodedFrame(channels, n),
                    !.pkt_frame_count = st.pkt_frame_count + 1,
                    !.pkt_sample_count = st.pkt_sample_count + frame_size]
    ELSE LET pad == Terminators(st.pkt_frame_count, st.frames_per_packet) IN
         [st EXCEPT !.bits = st.bits \o pad,
                    !.pkt_frame_count = st.pkt_frame_count + Len(pad)]

\* lines 231-272
encode_frame(data, buf_size) ==
    /\ phase = "Ready"
    /\ h.ncalls < MaxCalls
    /\ data \/ h.neos < MaxEos
    /\ IF ~data /\ EosNoPending(s.pkt_frame_count)
       THEN /\ ret' = 0
            /\ frame' = <<>>
            /\ h' = [Called("encode", data, Compare(buf_size, speex_bits_nbytes(s.bits)),
                            s.pkt_frame_count, s.pkt_frame_count, s.bits)
                       EXCEPT !.ncalls = h.ncalls + 1, !.neos = h.neos + 1,
                              !.only_samples = FALSE]
            /\ UNCHANGED <<avctx, s>>
       ELSE LET n      == h.nframes + (IF data THEN 1 ELSE 0)
                s1     == HandleInput(s, avctx.channels, avctx.frame_size, data, n)
                nbytes == speex_bits_nbytes(s1.bits)
                w      == speex_bits_write(s1.bits, buf_size)
                cmp    == Compare(buf_size, nbytes)
                h1     == [Called("encode", data, "na",
                                  s.pkt_frame_count, s1.pkt_frame_count, s1.bits)
                             EXCEPT !.ncalls = h.ncalls + 1, !.nframes = n,
                                    !.neos = h.neos + (IF data THEN 0 ELSE 1),
                                    !.only_samples = h.only_samples /\ data,
                                    !.padded = h.padded \/ ~data]
            IN  IF PacketComplete(s1.pkt_frame_count, s1.frames_per_packet)
                THEN /\ cmp = "gt" \/ h.nsmall < MaxSmall
                     /\ avctx' = [avctx EXCEPT !.pts =
                                     ff_samples_to_time_base(avctx, s1.next_pts - avctx.delay)]
                     /\ IF BufferFits(buf_size, nbytes)
                        THEN /\ s' = [s1 EXCEPT !.pkt_frame_count = 0,
                                         !.next_pts = AdvancePts(s1.next_pts, s1.pkt_sample_count),
                                         !.pkt_sample_count = 0,
                                         !.bits = <<>>]
                             /\ frame' = w.data
                             /\ ret' = w.ret
                             /\ h' = [h1 EXCEPT !.buf_cmp = cmp,
                                                !.nsmall = h.nsmall + (IF cmp = "gt" THEN 0 ELSE 1),
                                                !.padded = FALSE,
                                                !.emitted = h.emitted + h.pkt_samples,
                                                !.pkt_samples = avctx.frame_size *
                                                   Cardinality({i \in 1..Len(w.data) :
                                                                  w.data[i].kind = "frame"})]
                        ELSE /\ s' = [s1 EXCEPT !.pkt_frame_count = 0,
                                         !.next_pts = AdvancePts(s1.next_pts, s1.pkt_sample_count),
                                         !.pkt_sample_count = 0]
                             /\ frame' = <<>>
                             /\ ret' = AVERROR_EINVAL
                             /\ h' = [h1 EXCEPT !.buf_cmp = cmp,
                                                !.nsmall = h.nsmall + (IF cmp = "gt" THEN 0 ELSE 1)]
                ELSE /\ s' = s1
                     /\ frame' = <<>>
                     /\ ret' = 0
                     /\ h' = h1
                     /\ UNCHANGED avctx
    /\ UNCHANGED <<cfg, lib, heap, ctls, phase>>

\* the bytes in the bitwriter once the input of a call has been handled
BytesAfterInput(data) ==
    speex_bits_nbytes(HandleInput(s, avctx.channels, avctx.frame_size, data,
                                  h.nframes + 1).bits)

(* ---------------------------------------------------------------------- *)
(* encode_close                                                            *)
(* ---------------------------------------------------------------------- *)
\* a faulty close that forgets the frame placeholder
ReleaseOnClose_KeepsFrame(hp) ==
    [hp EXCEPT !.bits = "destroyed",
               !.enc_state = "destroyed",
               !.enc_destroys = hp.enc_destroys + 1,
               !.extradata = "freed"]

\* lines 278-282: what encode_close releases
ReleaseOnClose(hp) ==
    [hp EXCEPT !.bits = "destroyed",
               !.enc_state = "destroyed",
               !.enc_destroys = hp.enc_destroys + 1,
               !.coded_frame = "freed",
               !.extradata = "freed"]

\* lines 274-285
encode_close ==
    /\ phase = "Ready"
    /\ heap' = ReleaseOnClose(heap)
    /\ avctx' = [avctx EXCEPT !.coded_frame = "NULL", !.extradata = "NULL"]
    /\ ret' = 0
    /\ phase' = "Closed"
    /\ h' = Called("close", FALSE, "na", s.pkt_frame_count, s.pkt_frame_count, s.bits)
    /\ UNCHANGED <<cfg, lib, s, ctls, frame>>

(* ---------------------------------------------------------------------- *)
(* Initial states and specifications                                       *)
(* ---------------------------------------------------------------------- *)
\* the context after avcodec allocation: priv_data zeroed, the private
\* options (lines 289-294) and the caller's settings filled in
InitFrom(configs, libs) ==
    /\ cfg \in configs
    /\ lib \in libs
    /\ avctx = [channels |-> cfg.channels, sample_rate |-> cfg.sample_rate,
                flags |-> cfg.flags, global_quality |-> cfg.global_quality,
                bit_rate |-> cfg.bit_rate,
                compression_level |-> cfg.compression_level,
                time_base |-> cfg.time_base, frame_size |-> 0, delay |-> 0,
                extradata |-> "NULL", extradata_size |-> 0,
                coded_frame |-> "NULL", pts |-> 0]
    /\ s = [bits |-> <<>>, header |-> speex_init_header(0, 0, "none"),
            enc_state |-> "NULL",
            frames_per_packet |-> cfg.frames_per_packet,
            vbr_quality |-> 0, cbr_quality |-> cfg.cbr_quality, abr |-> cfg.abr,
            pkt_frame_count |-> 0, next_pts |-> 0, pkt_sample_count |-> 0]
    /\ heap = [enc_state |-> "none", enc_destroys |-> 0, header_data |-> "none",
               extradata |-> "none", extradata_content |-> <<>>,
               coded_frame |-> "none", bits |-> "none"]
    /\ ctls = <<>>
    /\ frame = <<>>
    /\ ret = 0
    /\ phase = "Uninitialized"
    /\ h = [op |-> "none", data |-> FALSE, buf_cmp |-> "na", pre_cnt |-> 0,
            in_cnt |-> 0, in_bits |-> <<>>, ncalls |-> 0, nframes |-> 0,
            neos |-> 0, nsmall |-> 0,
            only_samples |-> TRUE, padded |-> FALSE,
            emitted |-> 0, pkt_samples |-> 0]

\* packetisation: every frames_per_packet, mono, stereo and a refused channel
\* count, one sample rate
PacketConfigs ==
    [channels : 1..3, sample_rate : {8000}, flags : {0}, global_quality : {0},
     bit_rate : {0}, compression_level : {3},
     time_base : {<<1, 8000>>},
     frames_per_packet : MinFramesPerPacket..MaxFramesPerPacket,
     abr : {0}, cbr_quality : {8}]
PacketLibs == [complexity : {2}, bitrate : {15000}, lookahead : {40}, header_size : {80}]

\* configuration: every combination of the settings encode_init reads
InitConfigs ==
    [channels : -1..3, sample_rate : {8000, 16000, 32000, 44100},
     flags : 0..(CODEC_FLAG_QSCALE + 1),
     global_quality : {-5 * FF_QP2LAMBDA, 3 * FF_QP2LAMBDA + 59, 99 * FF_QP2LAMBDA},
     bit_rate : {0, 24600}, compression_level : {-1, 0, 3, 12},
     time_base : {<<1, 1000>>},
     frames_per_packet : {2}, abr : {0, 1}, cbr_quality : {8}]
InitLibs == [complexity : {2}, bitrate : {15000, 24600}, lookahead : {40},
             header_size : {80}]

Init == InitFrom(PacketConfigs, PacketLibs)

InitCfg == InitFrom(InitConfigs, InitLibs)

EncodeData == \E buf_size \in BufSizes(BytesAfterInput(TRUE)) : encode_frame(TRUE, buf_size)
EncodeEos  == \E buf_size \in BufSizes(BytesAfterInput(FALSE)) : encode_frame(FALSE, buf_size)

Next == encode_init \/ EncodeData \/ EncodeEos \/ encode_close

\* the configuration specification follows each configuration through
\* encode_init, at most MaxCallsCfg encode_frame calls and encode_close
ShortEncodeData == h.ncalls < MaxCallsCfg /\ EncodeData
ShortEncodeEos  == h.ncalls < MaxCallsCfg /\ EncodeEos

NextCfg == encode_init \/ ShortEncodeData \/ ShortEncodeEos \/ encode_close

Spec == Init /\ [][Next]_vars

SpecCfg == InitCfg /\ [][NextCfg]_vars

(* ---------------------------------------------------------------------- *)
(* Properties                                                              *)
(* ---------------------------------------------------------------------- *)
\* the step is an encode_frame call
EncodeStep == h'.ncalls = h.ncalls + 1

\* the last call was encode_frame and its packet-complete test succeeded
Completed == h.op = "encode" /\ h.in_cnt = s.frames_per_packet

\* C1: after encode_frame failed with "output buffer too small", the next
\* encode_frame call whose buffer exceeds the bytes in the bitwriter returns
\* exactly the packet that was complete at the failure.
C1_RetryReturnsSamePacket ==
    [][(EncodeStep /\ h.op = "encode" /\ ret = AVERROR_EINVAL /\ h'.buf_cmp = "gt")
         => (ret' > 0 /\ frame' = s.bits)]_vars

\* C2: a call that fails with "output buffer too small" leaves the pending
\* counters, next_pts, the reported pts and the bitwriter as they were when
\* the packet became complete.
C2_FailureLeavesStateAsCompleted ==
    [][(EncodeStep /\ ret' = AVERROR_EINVAL)
         => /\ s'.pkt_frame_count = s.frames_per_packet
            /\ s'.pkt_sample_count =
                 s.pkt_sample_count + (IF h'.data THEN avctx.frame_size ELSE 0)
            /\ s'.next_pts = s.next_pts
            /\ avctx'.pts = avctx.pts
            /\ s'.bits = h'.in_bits]_vars

\* C3: when the packet is complete and buf_size >= the bytes of the
\* accumulated bits (equality included), the bits are written, the bitwriter
\* is reset and the byte count returned; the call fails only when
\* buf_size is less than that.
C3_FitsWhenLargeEnough ==
    Completed =>
        /\ h.buf_cmp \in {"eq", "gt"} =>
              /\ ret = speex_bits_nbytes(h.in_bits)
              /\ frame = h.in_bits
              /\ s.bits = <<>>
        /\ ret = AVERROR_EINVAL => h.buf_cmp = "lt"

\* C4 as stated: a call returns a packet exactly when pkt_frame_count equals
\* frames_per_packet after the input was handled, and returns 0 otherwise.
C4_EmittedIffComplete ==
    h.op = "encode" =>
        /\ (ret > 0 /\ frame # <<>>) <=> h.in_cnt = s.frames_per_packet
        /\ h.in_cnt # s.frames_per_packet => ret = 0

\* C4 amended: pkt_frame_count equals frames_per_packet after the input was
\* handled exactly when the call returns a packet or fails with "output buffer
\* too small"; every other call returns 0 and writes nothing.
C4_CompleteIffEmittedOrTooSmall ==
    h.op = "encode" =>
        /\ h.in_cnt = s.frames_per_packet <=>
              ((ret > 0 /\ frame = h.in_bits) \/ ret = AVERROR_EINVAL)
        /\ h.in_cnt # s.frames_per_packet => (ret = 0 /\ frame = <<>>)
        /\ ret = AVERROR_EINVAL => frame = <<>>

C4_Witness ==
    /\ h.op = "encode" /\ ~h.data /\ h.in_cnt = s.frames_per_packet
    /\ ret > 0 /\ s.frames_per_packet = 3 /\ h.pre_cnt = 1

\* C5: while every call so far carried samples and had an adequate buffer,
\* the k-th call returns a packet exactly when k is a multiple of
\* frames_per_packet, and 0 otherwise.
C5_PacketEveryNthCall ==
    (h.op = "encode" /\ h.only_samples /\ h.nsmall = 0) =>
        /\ ret > 0 <=> h.ncalls % s.frames_per_packet = 0
        /\ h.ncalls % s.frames_per_packet # 0 => ret = 0
        /\ ret > 0 => Len(SelectSeq(frame, LAMBDA x : x.kind = "frame"))
                        = s.frames_per_packet

C5_Witness ==
    /\ h.op = "encode" /\ h.only_samples /\ h.nsmall = 0
    /\ s.frames_per_packet = MaxFramesPerPacket
    /\ h.ncalls = MaxFramesPerPacket /\ ret > 0

\* the last k items of the bitwriter contents b
LastItems(b, k) == SubSeq(b, Len(b) - k + 1, Len(b))

\* C6: an end-of-stream call with 0 < pkt_frame_count < frames_per_packet
\* pads the packet with (frames_per_packet - pkt_frame_count) terminator
\* codes, and the padded final packet is emitted: an end-of-stream call
\* reports "nothing" only when no padded packet is still undelivered.
C6_EosPadsAndEmitsFinalPacket ==
    (h.op = "encode" /\ ~h.data) =>
        /\ (0 < h.pre_cnt /\ h.pre_cnt < s.frames_per_packet) =>
              /\ h.in_cnt = s.frames_per_packet
              /\ \A i \in 1..(s.frames_per_packet - h.pre_cnt) :
                    LastItems(h.in_bits, s.frames_per_packet - h.pre_cnt)[i]
                      = PackToken(15, 5)
        /\ ret = 0 => ~h.padded

\* C7: an end-of-stream call made with pkt_frame_count = 0 returns 0, writes
\* nothing, and leaves the bitwriter, both counters, next_pts and the
\* reported pts unchanged, whatever buf_size is.
C7_EosNothingPending ==
    [][(EncodeStep /\ ~h'.data /\ s.pkt_frame_count = 0)
         => (ret' = 0 /\ frame' = <<>> /\ s' = s /\ avctx' = avctx)]_vars

C7_Witness ==
    /\ h.op = "encode" /\ ~h.data /\ h.pre_cnt = 0
    /\ ret = 0 /\ h.buf_cmp = "lt" /\ s.bits # <<>>

\* C8: the pts of each emitted packet is the sum of the sample counts of the
\* packets emitted before it, minus the delay, in the caller's time base.
C8_PtsIsEmittedSamplesMinusDelay ==
    (h.op = "encode" /\ ret > 0) =>
        avctx.pts = ff_samples_to_time_base(avctx, h.emitted - avctx.delay)

\* C9: when encode_init fails after the codec instance was created, the
\* codec instance, the header bytes and every allocated buffer are released.
C9_FailedInitHoldsNothing ==
    (phase = "InitFailed" /\ heap.enc_state # "none") =>
        /\ heap.enc_state = "destroyed"
        /\ heap.header_data = "freed"
        /\ heap.extradata # "live"
        /\ heap.coded_frame # "live"

\* the rate control requests among the controls sent, in order
RateRequests ==
    {"SPEEX_SET_VBR", "SPEEX_SET_VBR_QUALITY", "SPEEX_SET_ABR", "SPEEX_GET_ABR",
     "SPEEX_SET_BITRATE", "SPEEX_GET_BITRATE", "SPEEX_SET_QUALITY"}
RateCtlsSent == SelectSeq(ctls, LAMBDA c : c.req \in RateRequests)

\* C10: the rate control requests sent by encode_init are those of exactly
\* one branch, chosen by: quality-scale flag -> VBR enable and VBR quality;
\* else bitrate > 0 and abr -> ABR target set and read back; else bitrate > 0
\* -> bitrate set and read back; else CBR quality set, bitrate read back.
C10_OneRateControlPolicy ==
    heap.enc_state # "none" =>
        LET sent == [i \in 1..Len(RateCtlsSent) |-> RateCtlsSent[i].req] IN
        IF cfg.flags \in {CODEC_FLAG_QSCALE, CODEC_FLAG_QSCALE + 1}
        THEN /\ sent = <<"SPEEX_SET_VBR", "SPEEX_SET_VBR_QUALITY">>
             /\ s.header.vbr = 1
        ELSE IF cfg.bit_rate > 0 /\ cfg.abr = 1
        THEN /\ sent = <<"SPEEX_SET_ABR", "SPEEX_GET_ABR">>
             /\ RateCtlsSent[1].val = cfg.bit_rate
             /\ s.header.bitrate = RateCtlsSent[2].val
        ELSE IF cfg.bit_rate > 0
        THEN /\ sent = <<"SPEEX_SET_BITRATE", "SPEEX_GET_BITRATE">>
             /\ RateCtlsSent[1].val = cfg.bit_rate
             /\ s.header.bitrate = RateCtlsSent[2].val
        ELSE /\ sent = <<"SPEEX_SET_QUALITY", "SPEEX_GET_BITRATE">>
             /\ RateCtlsSent[1].val = cfg.cbr_quality
             /\ s.header.bitrate = RateCtlsSent[2].val

C10_Witness ==
    /\ phase = "Ready" /\ cfg.flags = 1 /\ cfg.bit_rate > 0 /\ cfg.abr = 1
    /\ RateCtlsSent = <<Ctl("SPEEX_SET_ABR", cfg.bit_rate),
                        Ctl("SPEEX_GET_ABR", lib.bitrate)>>

\* the controls sent with the given request, in order
CtlsSent(request) == SelectSeq(ctls, LAMBDA c : c.req = request)

\* the quality-scale flag in the caller's configuration
CfgQScale == cfg.flags \in {CODEC_FLAG_QSCALE, CODEC_FLAG_QSCALE + 1}

\* C11: in the VBR branch the quality stored in vbr_quality and pushed to the
\* codec is the caller's quality (global_quality / FF_QP2LAMBDA) clamped into
\* [0.0, 10.0]: -5 is stored as 0.0 and 99 as 10.0. Qualities are numerators
\* over FF_QP2LAMBDA.
C11_VbrQualityClamped ==
    (heap.enc_state # "none" /\ CfgQScale) =>
        /\ s.vbr_quality >= 0 /\ s.vbr_quality <= 10 * FF_QP2LAMBDA
        /\ s.vbr_quality =
             (IF cfg.global_quality < 0 THEN 0
              ELSE IF cfg.global_quality > 10 * FF_QP2LAMBDA THEN 10 * FF_QP2LAMBDA
              ELSE cfg.global_quality)
        /\ cfg.global_quality = -5 * FF_QP2LAMBDA => s.vbr_quality = 0
        /\ cfg.global_quality = 99 * FF_QP2LAMBDA => s.vbr_quality = 10 * FF_QP2LAMBDA
        /\ CtlsSent("SPEEX_SET_VBR_QUALITY") =
             <<Ctl("SPEEX_SET_VBR_QUALITY", s.vbr_quality)>>

C11_Witness ==
    /\ phase = "Ready" /\ CfgQScale
    /\ cfg.global_quality = 99 * FF_QP2LAMBDA
    /\ s.vbr_quality = 10 * FF_QP2LAMBDA

\* C12: in the ABR and CBR branches the bitrate reported in avctx->bit_rate is
\* the bitrate read back from the codec plus 800 for two channels and plus 0
\* for one; in the VBR branch avctx->bit_rate is left as the caller set it.
C12_ReportedBitrate ==
    heap.enc_state # "none" =>
        IF CfgQScale
        THEN avctx.bit_rate = cfg.bit_rate
        ELSE /\ s.header.bitrate = RateCtlsSent[2].val
             /\ cfg.channels = 2 => avctx.bit_rate = s.header.bitrate + 800
             /\ cfg.channels = 1 => avctx.bit_rate = s.header.bitrate

C12_Witness ==
    /\ phase = "Ready" /\ ~CfgQScale /\ cfg.channels = 2 /\ cfg.bit_rate > 0
    /\ cfg.abr = 0 /\ avctx.bit_rate = lib.bitrate + 800

\* the mode each supported sample rate stands for
SupportedRates == {8000, 16000, 32000}
ExpectedMode ==
    IF cfg.sample_rate = 8000 THEN "narrowband"
    ELSE IF cfg.sample_rate = 16000 THEN "wideband" ELSE "ultra-wideband"

\* nothing was created, allocated or sent to the codec
NothingAcquired ==
    /\ heap.enc_state = "none" /\ heap.header_data = "none"
    /\ heap.extradata = "none" /\ heap.coded_frame = "none" /\ heap.bits = "none"
    /\ ctls = <<>>

\* C13 as stated: encode_init with a supported sample rate selects the mode
\* of that rate and succeeds; with any other rate it fails with
\* AVERROR(EINVAL) before a codec instance is created.
C13_SupportedRateSucceeds ==
    h.op = "init" =>
        /\ cfg.sample_rate \in SupportedRates =>
              (ret = 0 /\ s.header.mode = ExpectedMode)
        /\ cfg.sample_rate \notin SupportedRates =>
              (ret = AVERROR_EINVAL /\ NothingAcquired)

\* C13 amended: with a valid channel count and a supported sample rate
\* encode_init selects the mode of that rate and succeeds, unless libspeex
\* cannot create the encoder (-1) or one of the two allocations fails
\* (AVERROR(ENOMEM)); with any other rate it fails with AVERROR(EINVAL)
\* before a codec instance is created.
C13_SupportedRateSelectsMode ==
    h.op = "init" =>
        /\ (cfg.sample_rate \in SupportedRates /\ cfg.channels \in {1, 2}) =>
              /\ ret \in {0, ERROR_LIBSPEEX, AVERROR_ENOMEM}
              /\ ret = 0 => (phase = "Ready" /\ s.header.mode = ExpectedMode
                             /\ heap.extradata_content[1].mode = ExpectedMode)
              /\ ret = ERROR_LIBSPEEX => NothingAcquired
              /\ ret = AVERROR_ENOMEM =>
                    (avctx.extradata = "NULL" \/ avctx.coded_frame = "NULL")
        /\ cfg.sample_rate \notin SupportedRates =>
              (ret = AVERROR_EINVAL /\ phase = "InitFailed" /\ NothingAcquired)

C13_Witness ==
    /\ h.op = "init" /\ ret = 0 /\ cfg.sample_rate = 32000
    /\ s.header.mode = "ultra-wideband" /\ avctx.frame_size = 640

\* C14: for every channel count outside {1, 2} encode_init fails with
\* AVERROR(EINVAL), whatever the other settings, before a codec instance is
\* created.
C14_BadChannelsRefused ==
    (h.op = "init" /\ cfg.channels \notin {1, 2}) =>
        (ret = AVERROR_EINVAL /\ phase = "InitFailed" /\ NothingAcquired)

C14_Witness ==
    /\ h.op = "init" /\ cfg.channels = 0 /\ cfg.sample_rate = 8000
    /\ ret = AVERROR_EINVAL /\ heap.enc_state = "none"

\* C15: a complexity is pushed only when the caller's compression level is
\* above FF_COMPRESSION_DEFAULT, and it is that level clamped to [0, 10];
\* otherwise nothing is pushed. Either way avctx->compression_level ends as
\* the complexity read back from the codec after that step.
C15_Complexity ==
    heap.enc_state # "none" =>
        LET pushed == CtlsSent("SPEEX_SET_COMPLEXITY")
            got    == CtlsSent("SPEEX_GET_COMPLEXITY")
            clamped == IF cfg.compression_level < 0 THEN 0
                       ELSE IF cfg.compression_level > 10 THEN 10
                       ELSE cfg.compression_level
        IN  /\ cfg.compression_level > -1 =>
                  (pushed = <<Ctl("SPEEX_SET_COMPLEXITY", clamped)>>
                   /\ got = <<Ctl("SPEEX_GET_COMPLEXITY", clamped)>>)
            /\ cfg.compression_level <= -1 =>
                  (pushed = <<>>
                   /\ got = <<Ctl("SPEEX_GET_COMPLEXITY", lib.complexity)>>)
            /\ Len(got) = 1
            /\ avctx.compression_level = got[1].val

C15_Witness ==
    /\ phase = "Ready" /\ cfg.compression_level = 12
    /\ avctx.compression_level = 10
    /\ CtlsSent("SPEEX_SET_COMPLEXITY") = <<Ctl("SPEEX_SET_COMPLEXITY", 10)>>

\* C16: from a successful encode_init through every encode_frame call the
\* codec instance and the bitwriter are valid; encode_close returns 0,
\* destroys the codec instance exactly once, and afterwards none of the codec
\* instance, bitwriter, extradata or coded_frame is still held.
C16_HeldUntilClosedOnce ==
    /\ phase = "Ready" =>
          /\ heap.enc_state = "live" /\ heap.bits = "live"
          /\ heap.extradata = "live" /\ heap.coded_frame = "live"
          /\ heap.enc_destroys = 0
          /\ s.enc_state = "ptr"
    /\ phase = "Closed" =>
          /\ h.op = "close" /\ ret = 0
          /\ heap.enc_destroys = 1
          /\ heap.enc_state = "destroyed" /\ heap.bits = "destroyed"
          /\ heap.extradata = "freed" /\ heap.coded_frame = "freed"
          /\ heap.header_data = "freed"
          /\ avctx.extradata = "NULL" /\ avctx.coded_frame = "NULL"

C16_Witness ==
    /\ phase = "Closed" /\ heap.enc_destroys = 1
    /\ h.ncalls >= 2 /\ h.nsmall = 1 /\ h.neos >= 1

\* the frame slots of a packet: encoded frames and terminator markers
Slots(b, kind) == Cardinality({i \in 1..Len(b) : b[i].kind = kind})

\* C17: every packet returned by encode_frame holds exactly frames_per_packet
\* frame slots (encoded frames plus terminators) and at least one encoded
\* frame; no frame of an earlier completed packet is carried into it.
C17_PacketHoldsExactlyNSlots ==
    (h.op = "encode" /\ ret > 0) =>
        /\ Slots(frame, "frame") + Slots(frame, "pack") = s.frames_per_packet
        /\ Slots(frame, "frame") >= 1

\* C18: between calls 0 <= pkt_frame_count < frames_per_packet and
\* pkt_sample_count = pkt_frame_count * frame_size; both are zero right after
\* a call in which the packet became complete.
C18_PendingCounters ==
    phase = "Ready" =>
        /\ 0 <= s.pkt_frame_count /\ s.pkt_frame_count < s.frames_per_packet
        /\ s.pkt_sample_count = s.pkt_frame_count * avctx.frame_size
        /\ Completed => (s.pkt_frame_count = 0 /\ s.pkt_sample_count = 0)

C18_Witness ==
    /\ phase = "Ready" /\ h.op = "encode" /\ h.nsmall = 1
    /\ s.pkt_frame_count = 3 /\ s.pkt_sample_count = 3 * avctx.frame_size
    /\ avctx.channels = 2

\* C19: next_pts + pkt_sample_count is frame_size times the number of
\* encode_frame calls that carried samples, through end-of-stream padding
\* and through failures on a too small buffer.
C19_SampleConservation ==
    phase \in {"Ready", "Closed"} =>
        s.next_pts + s.pkt_sample_count = avctx.frame_size * h.nframes

C19_Witness ==
    /\ phase = "Ready" /\ h.nframes >= 3 /\ h.nsmall = 1 /\ h.neos >= 1
    /\ s.next_pts + s.pkt_sample_count = avctx.frame_size * h.nframes
    /\ s.next_pts > 0

====
